---- MODULE Spec2Model ----
(***************************************************************************)
(* A model of the MCP tool dispatch hub (MCPHub: connection supervisor,    *)
(* per-server call queue, admission counter) and of the ToolExecutor that  *)
(* sits on top of it.                                                      *)
(*                                                                         *)
(* Every async function is a thread whose program counter names the await  *)
(* it is suspended at; one action is the synchronous code between two      *)
(* awaits.  The backend (child process, JSON-RPC peer) is the environment: *)
(* it decides whether a connect, an initialize, a tools/list or a          *)
(* tools/call succeeds, and when a transport closes or errors.             *)
(***************************************************************************)
EXTENDS Integers, Sequences, FiniteSets, TLC

(***************************************************************************)
(* Program constants.                                                      *)
(***************************************************************************)
MAX_RETRY_ATTEMPTS == 3
MAX_CONCURRENT_OPERATIONS == 5

(***************************************************************************)
(* Bounds of the model.                                                    *)
(***************************************************************************)
\* configured servers and callTool invocations of the hub harness (Spec)
HubServers == 1
HubCallers == 2
\* configured servers of the connection harness (SpecConn) and of the start-up
\* harness (SpecBoot)
ConnServers == 1
BootServers == 2
\* configured servers and callTool invocations of the admission harness
AdmitServers == 6
AdmitCallers == 7
\* connection objects one server name may get over a run, per harness
HubGen == 2
ConnGen == 3
BootGen == 2
ExecGen == 1
AdmitGen == 1
\* hub.initialize() invocations, hub.reconnectServer() invocations
MaxInit == 2
MaxReconnect == 2
\* failures the backends may inject over a run
MaxFaults == 3
\* steps of a composed tool handed to registerTool
RegSteps == 3
\* steps of the composed tool that is executed
CompSteps == 3
\* registerTool calls, and steps of the definitions of the calls after the first
MaxRegistrations == 2
ReRegSteps == 2

Max2(a, b) == IF a >= b THEN a ELSE b
MaxGen == Max2(Max2(HubGen, ConnGen), Max2(BootGen, Max2(ExecGen, AdmitGen)))
MaxServers == Max2(Max2(HubServers, ConnServers), Max2(BootServers, AdmitServers))
MaxCallers == Max2(HubCallers, AdmitCallers)

AllServers == 1..MaxServers
Callers == 1..MaxCallers
Inits == 1..MaxInit
Gens == 1..MaxGen

\* thread ids: callTool invocations, the per-server ensureConnection promises
\* of an initialize() invocation, reconnectServer invocations
TaskId(i, s) == MaxCallers + (i - 1) * MaxServers + s
Tasks == { TaskId(i, s) : i \in Inits, s \in AllServers }
ReconnectId(r) == MaxCallers + MaxInit * MaxServers + r
Reconnectors == { ReconnectId(r) : r \in 1..MaxReconnect }
Threads == Callers \cup Tasks \cup Reconnectors

\* tool names are token sequences: "delete_repo" is <<"delete", "repo">>
SayTool == <<"say">>
DeleteRepo == <<"delete", "repo">>
GetRepo == <<"get", "repo">>
CreateRepo == <<"create", "repo">>
RemoveRepo == <<"remove", "repo">>
ModifyRepo == <<"modify", "repo">>
AbsentTool == <<"absent">>
\* what the backends answer to tools/list
BackendTools == { SayTool, DeleteRepo, GetRepo, CreateRepo, RemoveRepo, ModifyRepo }

VARIABLES
    cfgFile,                  \* the mcpServers of the configuration file (an input)
    pool,                     \* connection objects a server name may get (a bound)
    configLoaded,             \* this.config has been assigned
    initialized,              \* this.initialized
    connections,              \* this.connections: server -> connection object (0: no entry)
    conns,                    \* the McpConnection objects ever created, per server name
    nextGen,                  \* connection objects created so far, per server name
    connectionRetryAttempts,  \* this.connectionRetryAttempts
    toolCallQueue,            \* this.toolCallQueue
    inflight,                 \* client.callTool requests awaiting their reply, per server
    activeOperationCount,     \* this.activeOperationCount
    th,                       \* threads: program counter and ensureConnection locals
    cl,                       \* callTool invocations: tool, loop counter, outcome
    ini,                      \* initialize() invocations
    started,                  \* callTool invocations accepted so far (in id order)
    handshakes,               \* history: successful initialize replies, per server
    faulty,                   \* history: the backend of the server misbehaved
    faults,                   \* failures injected so far
    lastDispatched,           \* history: the caller of the last tools/call sent, per server
    ex,                       \* the executeTool invocation of the ToolExecutor
    co,                       \* the CompositionExecutor: registerTool, executeTool
    sd,                       \* the SIGINT handler of the dev server
    order                     \* history: queue entries pushed and sent, per server

vars == << cfgFile, pool, configLoaded, initialized, connections, conns, nextGen,
           connectionRetryAttempts, toolCallQueue, inflight, activeOperationCount,
           th, cl, ini, started, handshakes, faulty, faults, lastDispatched, ex,
           co, sd, order >>

\* what the run is given
env == << cfgFile, pool >>

hubVars == << configLoaded, initialized, connections, conns, nextGen,
              connectionRetryAttempts, toolCallQueue, inflight, activeOperationCount >>

AbsentConn == [status |-> "absent", open |-> FALSE, ready |-> FALSE, tools |-> FALSE,
               told |-> "none"]
IdleThread == [pc |-> "idle", srv |-> 0, attempts |-> 0, conn |-> 0, err |-> "none"]
IdleCall == [tool |-> <<>>, attempt |-> 0, lastError |-> "none", result |-> "none",
             dispatched |-> 0, listTimeout |-> FALSE]

\* no executeTool invocation yet
IdleExec ==
    [pc |-> "idle", tool |-> <<>>, given |-> <<>>, args |-> <<>>, llm |-> FALSE,
     ctx |-> [tool |-> <<>>, server |-> <<>>], attempts |-> 0,
     opState |-> "none", prev |-> FALSE, want |-> <<>>, call |-> 0,
     result |-> "none", missing |-> {}, sent |-> <<>>, rollbackError |-> FALSE,
     probes |-> 0, confirmations |-> 0, llmCalls |-> 0,
     captured |-> FALSE, rollbacks |-> 0, rbCall |-> 0, llmFailed |-> FALSE]

\* the CompositionExecutor before registerTool: no tool, no execution
IdleComp ==
    [def |-> << >>, reg |-> "none", cycle |-> << >>, tools |-> << >>, registrations |-> 0,
     pc |-> "idle", i |-> 0,
     status |-> << >>, errors |-> << >>, outputs |-> << >>, stack |-> << >>, k |-> 0, want |-> << >>,
     call |-> 0, calls |-> << >>, success |-> FALSE,
     rollbackInfo |-> [present |-> FALSE, triggered |-> FALSE, successful |-> FALSE]]

\* the process before SIGINT: no handler run yet
Running == [pc |-> "running", awaited |-> {}]

InitWith(servers, gens) ==
    /\ cfgFile = servers
    /\ pool = gens
    /\ configLoaded = FALSE
    /\ initialized = FALSE
    /\ connections = [s \in AllServers |-> 0]
    /\ conns = [s \in AllServers |-> [g \in Gens |-> AbsentConn]]
    /\ nextGen = [s \in AllServers |-> 0]
    /\ connectionRetryAttempts = [s \in AllServers |-> 0]
    /\ toolCallQueue = [s \in AllServers |-> <<>>]
    /\ inflight = [s \in AllServers |-> {}]
    /\ activeOperationCount = 0
    /\ th = [t \in Threads |-> IdleThread]
    /\ cl = [c \in Callers |-> IdleCall]
    /\ ini = [i \in Inits |-> "idle"]
    /\ started = 0
    /\ handshakes = [s \in AllServers |-> 0]
    /\ faulty = [s \in AllServers |-> FALSE]
    /\ faults = 0
    /\ lastDispatched = [s \in AllServers |-> 0]
    /\ ex = IdleExec
    /\ co = IdleComp
    /\ sd = Running
    /\ order = [s \in AllServers |-> [enqueued |-> 0, dispatched |-> << >>]]

Init == InitWith(1..HubServers, HubGen)

(***************************************************************************)
(* ensureConnection / connectServer / disconnectServer                     *)
(***************************************************************************)
ConnOf(s) == conns[s][connections[s]]

\* conn?.status === 'connected' for the entry of s in this.connections
IsConnected(s) == connections[s] # 0 /\ ConnOf(s).status = "connected"

\* the retry cap test of ensureConnection
RetryCapReached(attempts) == attempts >= MAX_RETRY_ATTEMPTS

\* this.config?.mcpServers?.[name] of connectServer
HasConfig(s) == configLoaded /\ s \in cfgFile

\* What the synchronous head of ensureConnection(s) does: return at once, throw
\* the max-retries error, start disconnectServer on the existing entry, throw for
\* a missing configuration (cfg: the server has one), or create the new
\* connection and start client.connect.
EcOutcome(s, cfg) ==
    IF IsConnected(s) THEN "return"
    ELSE IF RetryCapReached(connectionRetryAttempts[s]) THEN "maxRetries"
    ELSE IF connections[s] # 0 THEN "disconnect"
    ELSE IF ~cfg THEN "noConfig"
    ELSE "create"

\* a bound of the model: the pool of connection objects of one server name
CanCreate(s) == nextGen[s] < pool

EcFeasible(s, cfg) == EcOutcome(s, cfg) = "create" => CanCreate(s)

NotifyNothing(conn) == conn

\* notifyStatusChange(name, conn): the listeners are told conn.status
NotifyStatusChange(conn) == [conn EXCEPT !.told = conn.status]

\* the body of transport.onerror and of transport.onclose
OnTransportEvent(conn) ==
    IF conn.status # "disconnected"
    THEN NotifyStatusChange([conn EXCEPT !.status = "disconnected"])
    ELSE conn

\* a transport that closes fires onclose: the status becomes 'disconnected'
Closed(conn) == OnTransportEvent([conn EXCEPT !.open = FALSE, !.ready = FALSE])

NewConn ==
    NotifyStatusChange([status |-> "connecting", open |-> TRUE, ready |-> FALSE,
                        tools |-> FALSE, told |-> "none"])

\* the connection objects of s after the head of ensureConnection(s)
EcStartConns(s, cfg) ==
    CASE EcOutcome(s, cfg) = "disconnect" ->
            [conns[s] EXCEPT ![connections[s]] = Closed(@)]
      [] EcOutcome(s, cfg) = "create" -> [conns[s] EXCEPT ![nextGen[s] + 1] = NewConn]
      [] OTHER -> conns[s]

EcStartConnection(s, cfg) ==
    IF EcOutcome(s, cfg) = "create" THEN nextGen[s] + 1 ELSE connections[s]

EcStartNextGen(s, cfg) ==
    IF EcOutcome(s, cfg) = "create" THEN nextGen[s] + 1 ELSE nextGen[s]

\* the catch of ensureConnection stores attempts + 1
EcStartRetry(s, cfg) ==
    IF EcOutcome(s, cfg) = "noConfig" THEN connectionRetryAttempts[s] + 1
    ELSE connectionRetryAttempts[s]

EcStartThread(s, cfg) ==
    [pc |-> CASE EcOutcome(s, cfg) = "return" -> "ecReturned"
              [] EcOutcome(s, cfg) \in {"maxRetries", "noConfig"} -> "ecThrew"
              [] EcOutcome(s, cfg) = "disconnect" -> "disconnecting"
              [] OTHER -> "connecting",
     srv |-> s,
     attempts |-> IF EcOutcome(s, cfg) \in {"disconnect", "create"}
                  THEN connectionRetryAttempts[s] ELSE 0,
     conn |-> CASE EcOutcome(s, cfg) = "disconnect" -> connections[s]
                [] EcOutcome(s, cfg) = "create" -> nextGen[s] + 1
                [] OTHER -> 0,
     err |-> CASE EcOutcome(s, cfg) = "maxRetries" -> "maxRetries"
               [] EcOutcome(s, cfg) = "noConfig" -> "connect"
               [] OTHER -> "none"]

\* the head of ensureConnection(s), run by thread t
EnsureConnection(t, s) ==
    /\ EcFeasible(s, HasConfig(s))
    /\ conns' = [conns EXCEPT ![s] = EcStartConns(s, HasConfig(s))]
    /\ connections' = [connections EXCEPT ![s] = EcStartConnection(s, HasConfig(s))]
    /\ nextGen' = [nextGen EXCEPT ![s] = EcStartNextGen(s, HasConfig(s))]
    /\ connectionRetryAttempts' = [connectionRetryAttempts EXCEPT ![s] = EcStartRetry(s, HasConfig(s))]
    /\ th' = [th EXCEPT ![t] = EcStartThread(s, HasConfig(s))]

\* disconnectServer after its awaits: this.connections.delete(name)
DisconnectServerDone(t) ==
    /\ th[t].pc = "disconnecting"
    /\ connections' = [connections EXCEPT ![th[t].srv] = 0]
    /\ th' = [th EXCEPT ![t].pc = "creating"]
    /\ UNCHANGED << env, sd, ex, co, configLoaded, initialized, conns, nextGen,
                    connectionRetryAttempts, toolCallQueue, inflight,
                    activeOperationCount, cl, ini, started, handshakes, faulty, faults,
                    lastDispatched, order >>

\* connectServer after disconnectServer: new Client, new transport,
\* this.connections.set(name, conn), client.connect(transport) started
ConnectServerCreate(t) ==
    LET s == th[t].srv
        g == nextGen[s] + 1
    IN  /\ th[t].pc = "creating"
        /\ CanCreate(s)
        /\ conns' = [conns EXCEPT ![s][g] = NewConn]
        /\ connections' = [connections EXCEPT ![s] = g]
        /\ nextGen' = [nextGen EXCEPT ![s] = g]
        /\ th' = [th EXCEPT ![t].pc = "connecting", ![t].conn = g]
        /\ UNCHANGED << env, sd, ex, co, configLoaded, initialized, connectionRetryAttempts,
                        toolCallQueue, inflight, activeOperationCount, cl, ini,
                        started, handshakes, faulty, faults, lastDispatched, order >>

\* Promise.race([connect, timeout]) resolved: conn.status = 'connected',
\* the initialize request is sent
ConnectOk(t) ==
    LET s == th[t].srv
        g == th[t].conn
    IN  /\ th[t].pc = "connecting"
        /\ conns[s][g].open
        /\ conns' = [conns EXCEPT ![s][g] =
                         NotifyStatusChange([@ EXCEPT !.status = "connected",
                                                      !.ready = TRUE])]
        /\ th' = [th EXCEPT ![t].pc = "initializing"]
        /\ UNCHANGED << env, sd, ex, co, configLoaded, initialized, connections, nextGen,
                        connectionRetryAttempts, toolCallQueue, inflight,
                        activeOperationCount, cl, ini, started, handshakes, faulty, faults,
                        lastDispatched, order >>

\* the value the catch of ensureConnection stores after a failed connectServer
RetryAfterFailure(attempts) == attempts + 1

\* the catch of connectServer (status = 'disconnected', rethrow; the transport
\* is left as it is) and then the catch of ensureConnection
EcFailed(t) ==
    LET s == th[t].srv
        g == th[t].conn
    IN  /\ conns' = [conns EXCEPT ![s][g] =
                         NotifyStatusChange([@ EXCEPT !.status = "disconnected"])]
        /\ connectionRetryAttempts' =
               [connectionRetryAttempts EXCEPT ![s] = RetryAfterFailure(th[t].attempts)]
        /\ th' = [th EXCEPT ![t] = [pc |-> "ecThrew", srv |-> s, attempts |-> 0,
                                    conn |-> 0, err |-> "connect"]]

\* a failure the backend injects into a live connection uses the fault budget;
\* a failure that follows from a closed transport does not
Fault(s, injected) ==
    /\ injected => faults < MaxFaults
    /\ faults' = IF injected THEN faults + 1 ELSE faults
    /\ faulty' = [faulty EXCEPT ![s] = @ \/ injected]

\* Promise.race rejected: the connect timed out or failed on a running
\* transport, or the transport was closed
ConnectFail(t) ==
    /\ th[t].pc = "connecting"
    /\ EcFailed(t)
    /\ Fault(th[t].srv, conns[th[t].srv][th[t].conn].open)
    /\ UNCHANGED << env, sd, ex, co, configLoaded, initialized, connections, nextGen,
                    toolCallQueue, inflight, activeOperationCount, cl, ini, started,
                    handshakes, lastDispatched, order >>

\* capabilities.tools of the initialize reply of the backend of s
Advertised(s) == TRUE

\* the initialize reply: capabilities recorded; the list requests follow
InitializeOk(t) ==
    LET s == th[t].srv
        g == th[t].conn
    IN  /\ th[t].pc = "initializing"
        /\ conns[s][g].open /\ conns[s][g].ready
        /\ conns' = [conns EXCEPT ![s][g].tools = Advertised(s)]
        /\ handshakes' = [handshakes EXCEPT ![s] = @ + 1]
        /\ th' = [th EXCEPT ![t].pc = "postInit"]
        /\ UNCHANGED << env, sd, ex, co, configLoaded, initialized, connections, nextGen,
                        connectionRetryAttempts, toolCallQueue, inflight,
                        activeOperationCount, cl, ini, started, faulty, faults,
                        lastDispatched, order >>

\* the initialize request rejected
InitializeFail(t) ==
    /\ th[t].pc = "initializing"
    /\ EcFailed(t)
    /\ Fault(th[t].srv, conns[th[t].srv][th[t].conn].ready)
    /\ UNCHANGED << env, sd, ex, co, configLoaded, initialized, connections, nextGen,
                    toolCallQueue, inflight, activeOperationCount, cl, ini, started,
                    handshakes, lastDispatched, order >>

\* connectServer returned: this.connectionRetryAttempts.set(name, 0)
EnsureConnectionDone(t) ==
    /\ th[t].pc = "postInit"
    /\ connectionRetryAttempts' = [connectionRetryAttempts EXCEPT ![th[t].srv] = 0]
    /\ th' = [th EXCEPT ![t].pc = "ecReturned", ![t].attempts = 0, ![t].conn = 0]
    /\ UNCHANGED << env, sd, ex, co, configLoaded, initialized, connections, conns, nextGen,
                    toolCallQueue, inflight, activeOperationCount, cl, ini, started,
                    handshakes, faulty, faults, lastDispatched, order >>

(***************************************************************************)
(* Transport events (the environment)                                      *)
(***************************************************************************)
\* the child process dies: transport.onclose
TransportCrash(s, g) ==
    /\ conns[s][g].open
    /\ conns' = [conns EXCEPT ![s][g] = Closed(@)]
    /\ Fault(s, TRUE)
    /\ UNCHANGED << env, sd, ex, co, configLoaded, initialized, connections, nextGen,
                    connectionRetryAttempts, toolCallQueue, inflight,
                    activeOperationCount, th, cl, ini, started, handshakes,
                    lastDispatched, order >>

\* transport.onerror of a running transport (it stays open)
TransportOnError(s, g) ==
    /\ conns[s][g].status \notin {"absent", "disconnected"}
    /\ conns[s][g].open
    /\ conns' = [conns EXCEPT ![s][g] = OnTransportEvent(@)]
    /\ Fault(s, TRUE)
    /\ UNCHANGED << env, sd, ex, co, configLoaded, initialized, connections, nextGen,
                    connectionRetryAttempts, toolCallQueue, inflight,
                    activeOperationCount, th, cl, ini, started, handshakes,
                    lastDispatched, order >>

(***************************************************************************)
(* The per-server call queue: enqueueToolCall / processNextToolCall        *)
(***************************************************************************)
\* for (attempt = 0; attempt < MAX_RETRY_ATTEMPTS; attempt++) together with the
\* willRetry test of the catch: is there another attempt after attempt a?
HasNextAttempt(a) == a + 1 < MAX_RETRY_ATTEMPTS

\* The catch of callTool's retry loop for caller c (the awaited enqueueToolCall
\* promise rejected with err): back off and retry, or give up.
FailTh(TH, CL, c) ==
    [TH EXCEPT ![c].pc = IF HasNextAttempt(CL[c].attempt) THEN "backoff" ELSE "done"]

FailCl(CL, c, err) ==
    [CL EXCEPT ![c].lastError = err,
               ![c].attempt = IF HasNextAttempt(@) THEN @ + 1 ELSE @,
               ![c].result = IF HasNextAttempt(CL[c].attempt) THEN @
                             ELSE "ToolCallFailed"]

\* the part of the state enqueueToolCall and processNextToolCall work on, for
\* one server
QueueState(s, TH, CL) ==
    [th |-> TH, cl |-> CL, cnt |-> activeOperationCount, infl |-> inflight[s],
     disp |-> lastDispatched[s], order |-> order[s]]

\* processNextToolCall(s) up to its await, on queue q: nothing for an empty
\* queue; reject the head and return when the server has no connection entry;
\* otherwise count the operation and send tools/call through the entry's client
ProcessNextToolCall(s, q, st) ==
    IF q = <<>> THEN st
    ELSE IF connections[s] = 0
    THEN [st EXCEPT !.th = FailTh(st.th, st.cl, Head(q).caller),
                    !.cl = FailCl(st.cl, Head(q).caller, "noConnection")]
    ELSE [st EXCEPT !.cnt = @ + 1,
                    !.infl = @ \cup {[caller |-> Head(q).caller,
                                      conn |-> connections[s],
                                      nth |-> st.cl[Head(q).caller].dispatched + 1]},
                    !.cl = [@ EXCEPT ![Head(q).caller].dispatched = @ + 1],
                    !.disp = Head(q).caller,
                    !.order.dispatched = Append(@, Head(q).seq)]

NeverOverloaded(cnt) == FALSE

\* the admission test of enqueueToolCall
Overloaded(cnt) == cnt >= MAX_CONCURRENT_OPERATIONS

StartsOnEveryEnqueue(q) == Len(q) >= 1

Unshift(q, e) == << e >> \o q

\* queue.push(e)
Push(q, e) == Append(q, e)

\* if (queue.length === 1) this.processNextToolCall(serverName)
StartsProcessing(q) == Len(q) = 1

\* enqueueToolCall(s, ...) called by caller c
EnqueueToolCall(c, s, q, st) ==
    IF Overloaded(st.cnt)
    THEN [q |-> q,
          st |-> [st EXCEPT !.th = FailTh(st.th, st.cl, c),
                            !.cl = FailCl(st.cl, c, "overloaded")]]
    ELSE LET q1 == Push(q, [caller |-> c, seq |-> st.order.enqueued + 1])
             st1 == [st EXCEPT !.th = [@ EXCEPT ![c].pc = "awaitCall"],
                               !.order.enqueued = @ + 1]
         IN  [q |-> q1,
              st |-> IF StartsProcessing(q1) THEN ProcessNextToolCall(s, q1, st1)
                     ELSE st1]

SetQueueState(s, r) ==
    /\ toolCallQueue' = [toolCallQueue EXCEPT ![s] = r.q]
    /\ th' = r.st.th
    /\ cl' = r.st.cl
    /\ activeOperationCount' = r.st.cnt
    /\ inflight' = [inflight EXCEPT ![s] = r.st.infl]
    /\ lastDispatched' = [lastDispatched EXCEPT ![s] = r.st.disp]
    /\ order' = [order EXCEPT ![s] = r.st.order]

\* the finally of processNextToolCall: the counter goes down
Decrement(cnt) == cnt - 1

\* the finally of processNextToolCall: queue.shift()
Shift(q) == IF q = <<>> THEN q ELSE Tail(q)

\* The reply (or the failure) of a tools/call request e of server s: the caller's
\* promise is settled, then the finally: counter down, queue.shift(), next call.
ToolCallSettled(s, e, ok) ==
    LET c == e.caller
        TH1 == IF ok THEN [th EXCEPT ![c].pc = "done"] ELSE FailTh(th, cl, c)
        CL1 == IF ok THEN [cl EXCEPT ![c].result = "ok"] ELSE FailCl(cl, c, "callFailed")
        st1 == [QueueState(s, TH1, CL1) EXCEPT !.cnt = Decrement(@), !.infl = @ \ {e}]
        q1 == Shift(toolCallQueue[s])
    IN  /\ SetQueueState(s, [q |-> q1, st |-> ProcessNextToolCall(s, q1, st1)])
        /\ UNCHANGED << env, sd, ex, co, configLoaded, initialized, connections, conns,
                        nextGen, connectionRetryAttempts, ini, started, handshakes >>

ToolCallOk(s) ==
    \E e \in inflight[s] :
        /\ conns[s][e.conn].open /\ conns[s][e.conn].ready
        /\ ToolCallSettled(s, e, TRUE)
        /\ UNCHANGED << faulty, faults >>

ToolCallFail(s) ==
    \E e \in inflight[s] :
        /\ ToolCallSettled(s, e, FALSE)
        /\ Fault(s, conns[s][e.conn].open /\ conns[s][e.conn].ready)

(***************************************************************************)
(* callTool                                                                *)
(***************************************************************************)
Finished(thr, clr, res) ==
    [th |-> [thr EXCEPT !.pc = "done", !.attempts = 0, !.conn = 0],
     cl |-> [clr EXCEPT !.result = res]]

\* callTool once the connection is there: the status check, then listTools up to
\* its tools/list request (an empty list at once for a server without tools)
AfterConnected(s, thr, clr) ==
    IF ~IsConnected(s) THEN Finished(thr, clr, "NotConnected")
    ELSE IF ~ConnOf(s).tools THEN Finished(thr, clr, "ToolNotFound")
    ELSE [th |-> [thr EXCEPT !.pc = "listing", !.conn = connections[s]], cl |-> clr]

\* hub.callTool(s, t, ...) up to its first await
CallToolStart(c, s, t) ==
    /\ th[c].pc = "idle"
    /\ c = started + 1
    /\ configLoaded
    /\ s \in cfgFile
    /\ started' = c
    /\ IF IsConnected(s)
       THEN LET r == AfterConnected(s, [th[c] EXCEPT !.srv = s],
                                    [cl[c] EXCEPT !.tool = t])
            IN  /\ th' = [th EXCEPT ![c] = r.th]
                /\ cl' = [cl EXCEPT ![c] = r.cl]
                /\ UNCHANGED << conns, connections, nextGen, connectionRetryAttempts >>
       ELSE /\ EnsureConnection(c, s)
            /\ cl' = [cl EXCEPT ![c].tool = t]
    /\ UNCHANGED << env, sd, configLoaded, initialized, toolCallQueue, inflight,
                    activeOperationCount, ini, handshakes, faulty, faults, lastDispatched, order >>

\* ensureConnection threw: callTool fails
CallToolConnectFailed(c) ==
    /\ c \in Callers
    /\ th[c].pc = "ecThrew"
    /\ th' = [th EXCEPT ![c] = Finished(th[c], cl[c], "ConnectFailed").th]
    /\ cl' = [cl EXCEPT ![c] = Finished(th[c], cl[c], "ConnectFailed").cl]
    /\ UNCHANGED << env, sd, ex, co, configLoaded, initialized, connections, conns, nextGen,
                    connectionRetryAttempts, toolCallQueue, inflight,
                    activeOperationCount, ini, started, handshakes, faulty, faults,
                    lastDispatched, order >>

\* the first ensureConnection of callTool returned
CallToolConnected(c) ==
    /\ c \in Callers
    /\ th[c].pc = "ecReturned"
    /\ cl[c].lastError = "none"
    /\ LET r == AfterConnected(th[c].srv, th[c], cl[c])
       IN  /\ th' = [th EXCEPT ![c] = r.th]
           /\ cl' = [cl EXCEPT ![c] = r.cl]
    /\ UNCHANGED << env, sd, ex, co, configLoaded, initialized, connections, conns, nextGen,
                    connectionRetryAttempts, toolCallQueue, inflight,
                    activeOperationCount, ini, started, handshakes, faulty, faults,
                    lastDispatched, order >>

\* the tools/list reply: tools.find, then the first attempt of the retry loop
ListToolsOk(c) ==
    LET s == th[c].srv
    IN  /\ th[c].pc = "listing"
        /\ conns[s][th[c].conn].open /\ conns[s][th[c].conn].ready
        /\ IF cl[c].tool \in BackendTools
           THEN SetQueueState(s, EnqueueToolCall(c, s, toolCallQueue[s],
                                                 QueueState(s, th, cl)))
           ELSE /\ th' = [th EXCEPT ![c] = Finished(th[c], cl[c], "ToolNotFound").th]
                /\ cl' = [cl EXCEPT ![c] = Finished(th[c], cl[c], "ToolNotFound").cl]
                /\ UNCHANGED << toolCallQueue, inflight, activeOperationCount,
                                lastDispatched, order >>
        /\ UNCHANGED << env, sd, ex, co, configLoaded, initialized, connections, conns,
                        nextGen, connectionRetryAttempts, ini, started, handshakes,
                        faulty, faults >>

\* the tools/list request failed: listTools returns [], the tool is not found
ListToolsFail(c) ==
    /\ th[c].pc = "listing"
    /\ th' = [th EXCEPT ![c] = Finished(th[c], cl[c], "ToolNotFound").th]
    /\ cl' = [cl EXCEPT ![c] = Finished(th[c], cl[c], "ToolNotFound").cl]
    /\ Fault(th[c].srv, conns[th[c].srv][th[c].conn].ready)
    /\ UNCHANGED << env, sd, ex, co, configLoaded, initialized, connections, conns, nextGen,
                    connectionRetryAttempts, toolCallQueue, inflight,
                    activeOperationCount, ini, started, handshakes, lastDispatched, order >>

\* controller.abort(): the signal of the controller was not handed to
\* client.request, so the pending tools/list request is not touched
Abort(thr, clr) == [th |-> thr, cl |-> clr]

\* the 5-second timer of listTools fired before the tools/list reply
ListToolsTimeout(c) ==
    /\ th[c].pc = "listing"
    /\ ~cl[c].listTimeout
    /\ th' = [th EXCEPT ![c] = Abort(th[c], [cl[c] EXCEPT !.listTimeout = TRUE]).th]
    /\ cl' = [cl EXCEPT ![c] = Abort(th[c], [cl[c] EXCEPT !.listTimeout = TRUE]).cl]
    /\ UNCHANGED << env, sd, ex, co, configLoaded, initialized, connections, conns, nextGen,
                    connectionRetryAttempts, toolCallQueue, inflight,
                    activeOperationCount, ini, started, handshakes, faulty, faults,
                    lastDispatched, order >>

\* the back-off timer of the catch fired: ensureConnection
BackoffDone(c) ==
    /\ th[c].pc = "backoff"
    /\ EnsureConnection(c, th[c].srv)
    /\ UNCHANGED << env, sd, ex, co, configLoaded, initialized, toolCallQueue, inflight,
                    activeOperationCount, cl, ini, started, handshakes, faulty, faults,
                    lastDispatched, order >>

\* ensureConnection of the catch returned: the next attempt
RetryEnqueue(c) ==
    LET s == th[c].srv
    IN  /\ c \in Callers
        /\ th[c].pc = "ecReturned"
        /\ cl[c].lastError # "none"
        /\ SetQueueState(s, EnqueueToolCall(c, s, toolCallQueue[s],
                                             QueueState(s, th, cl)))
        /\ UNCHANGED << env, sd, ex, co, configLoaded, initialized, connections, conns,
                        nextGen, connectionRetryAttempts, ini, started, handshakes,
                        faulty, faults >>

(***************************************************************************)
(* initialize / reconnectServer                                            *)
(***************************************************************************)
\* if (this.initialized) return
AlreadyInitialized == initialized

\* hub.initialize() up to await loadMcpConfig()
InitializeCall(i) ==
    /\ ini[i] = "idle"
    /\ \A j \in Inits : j < i => ini[j] # "idle"
    /\ ini' = [ini EXCEPT ![i] = IF AlreadyInitialized THEN "done" ELSE "loading"]
    /\ UNCHANGED << env, sd, ex, co, configLoaded, initialized, connections, conns, nextGen,
                    connectionRetryAttempts, toolCallQueue, inflight,
                    activeOperationCount, th, cl, started, handshakes, faulty, faults,
                    lastDispatched, order >>

\* the configuration is loaded: Promise.all over ensureConnection(name) of every
\* configured server, each run up to its first await
InitializeConnectAll(i) ==
    /\ ini[i] = "loading"
    /\ \A s \in cfgFile : EcFeasible(s, TRUE)
    /\ configLoaded' = TRUE
    /\ conns' = [s \in AllServers |-> IF s \in cfgFile THEN EcStartConns(s, TRUE) ELSE conns[s]]
    /\ connections' = [s \in AllServers |->
                          IF s \in cfgFile THEN EcStartConnection(s, TRUE) ELSE connections[s]]
    /\ nextGen' = [s \in AllServers |->
                      IF s \in cfgFile THEN EcStartNextGen(s, TRUE) ELSE nextGen[s]]
    /\ connectionRetryAttempts' =
           [s \in AllServers |->
               IF s \in cfgFile THEN EcStartRetry(s, TRUE) ELSE connectionRetryAttempts[s]]
    /\ th' = [t \in Threads |->
                 IF \E s \in cfgFile : t = TaskId(i, s)
                 THEN EcStartThread(CHOOSE s \in cfgFile : t = TaskId(i, s), TRUE)
                 ELSE th[t]]
    /\ ini' = [ini EXCEPT ![i] = "waiting"]
    /\ UNCHANGED << env, sd, ex, co, initialized, toolCallQueue, inflight,
                    activeOperationCount, cl, started, handshakes, faulty, faults,
                    lastDispatched, order >>

Uncaught(pc) == IF pc = "ecThrew" THEN "rejected" ELSE "fulfilled"

\* ensureConnection(name).catch(...): how a settled per-server promise enters
\* Promise.all
CaughtOutcome(pc) == "fulfilled"

\* Promise.all settled, the finally: this.initialized = true
InitializeDone(i) ==
    /\ ini[i] = "waiting"
    /\ \A s \in cfgFile : th[TaskId(i, s)].pc \in {"ecReturned", "ecThrew"}
    /\ initialized' = TRUE
    /\ ini' = [ini EXCEPT ![i] =
                  IF \E s \in cfgFile : CaughtOutcome(th[TaskId(i, s)].pc) = "rejected"
                  THEN "threw" ELSE "done"]
    /\ UNCHANGED << env, sd, ex, co, configLoaded, connections, conns, nextGen,
                    connectionRetryAttempts, toolCallQueue, inflight,
                    activeOperationCount, th, cl, started, handshakes, faulty, faults,
                    lastDispatched, order >>

\* hub.reconnectServer(s): the configuration lookup, then ensureConnection
ReconnectServer(t, s) ==
    /\ t \in Reconnectors
    /\ th[t].pc = "idle"
    /\ configLoaded
    /\ s \in cfgFile
    /\ EnsureConnection(t, s)
    /\ UNCHANGED << env, sd, ex, co, configLoaded, initialized, toolCallQueue, inflight,
                    activeOperationCount, cl, ini, started, handshakes, faulty, faults,
                    lastDispatched, order >>

(***************************************************************************)
(* dev-server: trackOperation and the SIGINT handler                       *)
(***************************************************************************)
\* activeOperations: trackOperation adds the promise of a callTool invocation,
\* its finally deletes it when the promise has settled
ActiveOperations == { c \in Callers : th[c].pc \notin { "idle", "done" } }

\* Promise.all over the promises of ops: rejected as soon as one of them is,
\* fulfilled when all of them are
PromiseAll(ops) ==
    IF \E c \in ops : th[c].pc = "done" /\ cl[c].result # "ok" THEN "rejected"
    ELSE IF \A c \in ops : th[c].pc = "done" THEN "fulfilled"
    ELSE "pending"

\* process.on('SIGINT') up to its await: with no active operation,
\* server.close() and process.exit() at once
Sigint ==
    /\ sd.pc = "running"
    /\ sd' = IF ActiveOperations = {} THEN [pc |-> "exited", awaited |-> {}]
             ELSE [pc |-> "waiting", awaited |-> ActiveOperations]
    /\ UNCHANGED << env, hubVars, th, cl, ini, started, handshakes, faulty, faults,
                    lastDispatched, ex, co, order >>

\* the await of the handler settled: server.close() and process.exit(), or
\* the rejection of Promise.all thrown out of the handler
SigintResumed ==
    /\ sd.pc = "waiting"
    /\ PromiseAll(sd.awaited) # "pending"
    /\ sd' = [sd EXCEPT !.pc = IF PromiseAll(sd.awaited) = "fulfilled"
                                THEN "exited" ELSE "aborted"]
    /\ UNCHANGED << env, hubVars, th, cl, ini, started, handshakes, faulty, faults,
                    lastDispatched, ex, co, order >>

\* the rejection of the handler's promise is handled nowhere: the runtime may
\* end the process on it
UnhandledRejection ==
    /\ sd.pc = "aborted"
    /\ sd' = [sd EXCEPT !.pc = "crashed"]
    /\ UNCHANGED << env, hubVars, th, cl, ini, started, handshakes, faulty, faults,
                    lastDispatched, ex, co, order >>

\* the process has not ended
ProcessAlive == sd.pc \notin { "exited", "crashed" }

(***************************************************************************)
(* ToolExecutor.executeTool                                                *)
(***************************************************************************)
\* config.maxRetries as the constructor sets it
DEFAULT_MAX_RETRIES == 3

\* the server the executeTool invocation names
ExecServer == 1

DANGEROUS_KEYWORDS ==
    { "delete", "remove", "drop", "truncate", "push", "write",
      "modify", "update", "alter", "exec", "execute", "format" }

\* DANGEROUS_OPERATIONS, in the order captureState tests them
OperationPattern(type) ==
    CASE type = "DELETE" -> { "delete", "remove", "drop" }
      [] type = "WRITE" -> { "write", "create", "push" }
      [] type = "MODIFY" -> { "modify", "update", "alter" }
      [] type = "EXECUTE" -> { "exec", "execute", "run" }
      [] type = "FORMAT" -> { "format", "clean", "clear" }

\* RegExp.test / String.includes on a name: one of the words occurs in it
Matches(name, words) == \E k \in 1..Len(name) : name[k] \in words

\* String.replace(/w1|w2/i, by): the leftmost occurrence only
Replace(name, words, by) ==
    IF Matches(name, words)
    THEN LET first == CHOOSE k \in 1..Len(name) :
                          name[k] \in words /\ \A j \in 1..(k - 1) : name[j] \notin words
         IN  [name EXCEPT ![first] = by]
    ELSE name

\* this.toolSchemas.get(serverName) after initializeServerTools
ToolSchemas == BackendTools

\* isDangerousTool for a descriptor without safety metadata and without a
\* required field that is a dangerous operation name: the keyword test
IsDangerousTool(name) == Matches(name, DANGEROUS_KEYWORDS)

\* requiresConfirmation under the default configuration (no danger levels, no
\* patterns, no tool list): isDangerousTool
RequiresConfirmation(name) == name \in ToolSchemas /\ IsDangerousTool(name)

\* state.type of captureState
CaptureType(name) ==
    IF Matches(name, OperationPattern("DELETE")) THEN "DELETE"
    ELSE IF Matches(name, OperationPattern("WRITE")) THEN "WRITE"
    ELSE IF Matches(name, OperationPattern("MODIFY")) THEN "MODIFY"
    ELSE IF Matches(name, OperationPattern("EXECUTE")) THEN "EXECUTE"
    ELSE IF Matches(name, OperationPattern("FORMAT")) THEN "FORMAT"
    ELSE "MODIFY"

\* the tool captureState calls to read the state before the operation
ProbeName(name) == Replace(name, { "delete", "modify" }, "get")

\* the tools rollback calls
CreateName(name) == Replace(name, { "delete", "remove" }, "create")
RestoreName(name) == Replace(name, { "write", "modify" }, "restore")

\* Object.entries(tool.inputSchema): the keys validateAndEnrichArguments
\* iterates over, for a descriptor that declares required fields
SchemaKeys == { "type", "properties", "required" }

\* inputSchema.required of the descriptors the backends answer: every tool
\* requires the field name
Required(name) == { "name" }

\* arguments and defaults are functions from field names to values; a field
\* outside the domain is undefined
NoArgs == << >>
Undefined == "undefined"

\* { ...a, ...b }
Merge(a, b) ==
    [f \in DOMAIN a \cup DOMAIN b |-> IF f \in DOMAIN b THEN b[f] ELSE a[f]]

\* getServerDefault: the default of the tool's own entry of the server context,
\* then the server-wide one
GetServerDefault(ctx, field) ==
    IF field \in DOMAIN ctx.tool THEN ctx.tool[field]
    ELSE IF field \in DOMAIN ctx.server THEN ctx.server[field]
    ELSE Undefined

\* the fields validateAndEnrichArguments looks at
ValidatedFields(name) == SchemaKeys

\* enrichedArgs of validateAndEnrichArguments
EnrichedArgs(name, args, ctx) ==
    LET injected == { f \in ValidatedFields(name) \ DOMAIN args :
                          GetServerDefault(ctx, f) # Undefined }
    IN  [f \in DOMAIN args \cup injected |->
             IF f \in DOMAIN args THEN args[f] ELSE GetServerDefault(ctx, f)]

\* missingFields of validateAndEnrichArguments
MissingFields(name, args, ctx) ==
    { f \in ValidatedFields(name) \ DOMAIN args : GetServerDefault(ctx, f) = Undefined }

ExDone(r, res) == [r EXCEPT !.pc = "done", !.result = res, !.want = <<>>, !.call = 0]

\* validateAndEnrichArguments and what follows it in the loop body
ExValidate(r) ==
    IF MissingFields(r.tool, r.args, r.ctx) = {}
    THEN [r EXCEPT !.pc = "call", !.want = r.tool,
                   !.sent = EnrichedArgs(r.tool, r.args, r.ctx)]
    ELSE IF r.llm
    THEN [r EXCEPT !.pc = "llm", !.llmCalls = @ + 1,
                   !.missing = MissingFields(r.tool, r.args, r.ctx)]
    ELSE ExDone([r EXCEPT !.missing = MissingFields(r.tool, r.args, r.ctx)],
                "MissingFields")

\* the confirmation test of the loop body
ExAfterCapture(r) ==
    IF RequiresConfirmation(r.tool)
    THEN [r EXCEPT !.pc = "confirm", !.confirmations = @ + 1]
    ELSE ExValidate(r)

OneMoreAttempt(attempts) == attempts <= DEFAULT_MAX_RETRIES

\* while (attempts < this.config.maxRetries)
AttemptsLeft(attempts) == attempts < DEFAULT_MAX_RETRIES

\* the while test and the head of the loop body, captureState included
ExTop(r) ==
    IF ~AttemptsLeft(r.attempts) THEN ExDone(r, "FailedAfterAttempts")
    ELSE IF r.tool \notin ToolSchemas THEN ExDone(r, "ToolNotFound")
    ELSE IF ~IsDangerousTool(r.tool) THEN ExAfterCapture(r)
    ELSE IF CaptureType(r.tool) \in { "DELETE", "MODIFY" }
    THEN [r EXCEPT !.pc = "probe", !.want = ProbeName(r.tool), !.probes = @ + 1]
    ELSE ExAfterCapture([r EXCEPT !.opState = CaptureType(r.tool), !.prev = FALSE])

HasAnyTool(name) == TRUE

\* this.toolSchemas.get(state.serverName)?.has(name)
HasTool(name) == name \in ToolSchemas

\* rollback(operationState) up to its hub call
ExRollback(r) ==
    IF ~r.prev THEN ExDone([r EXCEPT !.rollbackError = TRUE], "Failed")
    ELSE IF r.opState = "DELETE" /\ HasTool(CreateName(r.tool))
    THEN [r EXCEPT !.pc = "rollback", !.want = CreateName(r.tool)]
    ELSE IF r.opState = "MODIFY" /\ HasTool(RestoreName(r.tool))
    THEN [r EXCEPT !.pc = "rollback", !.want = RestoreName(r.tool)]
    ELSE ExDone(r, "Failed")

\* the catch of the loop body
ExCatch(r) ==
    IF r.opState # "none" THEN ExRollback([r EXCEPT !.rollbacks = @ + 1])
    ELSE ExDone(r, "Failed")

\* the executor goes on as r says: it starts the hub call r waits for, if any
ExecAdvance(r) ==
    IF r.pc \in { "probe", "call", "rollback" }
    THEN /\ started < MaxCallers
         /\ ex' = [r EXCEPT !.call = started + 1,
                            !.rbCall = IF r.pc = "rollback" THEN started + 1 ELSE @]
         /\ CallToolStart(started + 1, ExecServer, r.want)
         /\ UNCHANGED co
    ELSE /\ ex' = r
         /\ UNCHANGED << env, sd, co, configLoaded, initialized, connections, conns, nextGen,
                         connectionRetryAttempts, toolCallQueue, inflight,
                         activeOperationCount, th, cl, ini, started, handshakes,
                         faulty, faults, lastDispatched, order >>

\* executor.executeTool({serverName, toolName, arguments}) with llmEnabled = llm
\* and the server context ctx
ExecuteTool(tool, args, llm, ctx) ==
    /\ ex.pc = "idle"
    /\ ExecAdvance(ExTop([IdleExec EXCEPT !.tool = tool, !.given = args, !.args = args,
                                          !.llm = llm, !.ctx = ctx]))

\* the hub call the executor awaits has settled
HubCallSettled == ex.call # 0 /\ th[ex.call].pc = "done"
HubCallOk == cl[ex.call].result = "ok"

\* captureState after its hub call: the state with previousState, or undefined
ProbeDone ==
    /\ ex.pc = "probe"
    /\ HubCallSettled
    /\ ExecAdvance(ExAfterCapture(
           IF HubCallOk
           THEN [ex EXCEPT !.opState = CaptureType(ex.tool), !.prev = TRUE,
                           !.captured = TRUE]
           ELSE [ex EXCEPT !.opState = "none", !.prev = FALSE]))

\* getUserConfirmation settled
ConfirmReply(answer) ==
    /\ ex.pc = "confirm"
    /\ ExecAdvance(CASE answer = "yes" -> ExValidate(ex)
                     [] answer = "no" -> ExDone(ex, "UserDenied")
                     [] OTHER -> ExCatch(ex))

\* how a promptLLM call can end: the API call throws, the reply is not JSON,
\* the reply asks for user input, the reply provides values
LlmReplies == { "apiError", "parseError", "promptUser", "values" }

\* promptLLM: its result for the reply and the values of the reply; both
\* catches, and values that do not validate, ask for user input
PromptLLM(reply, values, r) ==
    IF reply \in { "apiError", "parseError" }
    THEN [shouldPromptUser |-> TRUE, providedValues |-> NoArgs]
    ELSE IF /\ DOMAIN values # {}
            /\ MissingFields(r.tool, Merge(r.args, values), r.ctx) # {}
    THEN [shouldPromptUser |-> TRUE, providedValues |-> NoArgs]
    ELSE [shouldPromptUser |-> reply = "promptUser", providedValues |-> values]

\* promptLLM settled: executeTool returns the request for user input, or merges
\* the values and goes round the loop
LlmReply(reply, values) ==
    /\ ex.pc = "llm"
    /\ LET llmResult == PromptLLM(reply, values, ex)
           r == [ex EXCEPT !.llmFailed = reply \in { "apiError", "parseError" }]
       IN  ExecAdvance(
               IF llmResult.shouldPromptUser THEN ExDone(r, "UserInputRequired")
               ELSE ExTop([r EXCEPT !.args = Merge(@, llmResult.providedValues),
                                    !.attempts = @ + 1]))

\* the hub call of the tool settled
CallDone ==
    /\ ex.pc = "call"
    /\ HubCallSettled
    /\ ExecAdvance(IF HubCallOk THEN ExDone(ex, "ok") ELSE ExCatch(ex))

RollbackUncaught(r, ok) == ExDone(r, IF ok THEN "Failed" ELSE "rejected")

\* rollback after its hub call, with its catch, and the return of the catch of
\* executeTool: the error of the operation, rollbackError if the rollback failed
RollbackSettled(r, ok) == ExDone([r EXCEPT !.rollbackError = ~ok], "Failed")

\* the hub call of rollback settled
RollbackDone ==
    /\ ex.pc = "rollback"
    /\ HubCallSettled
    /\ ExecAdvance(RollbackSettled(ex, HubCallOk))

(***************************************************************************)
(* CompositionExecutor: registerTool / validateTool                        *)
(***************************************************************************)
\* A composed tool is a sequence of steps.  A step has a name, a tool, the step
\* names its input refers to with ParamRefs of kind output (in the order of the
\* input's entries), whether it declares an output key, a condition and a
\* rollback: none, one with literal parameters ("plain"), or one that takes the
\* step's own output ("own").
NoCondition == [type |-> "none", stepName |-> ""]

Range(q) == { q[n] : n \in 1..Len(q) }

\* Array.indexOf
IndexOf(q, x) == CHOOSE n \in 1..Len(q) : q[n] = x /\ \A m \in 1..(n - 1) : q[m] # x

\* Array.reverse
Reverse(q) == [n \in 1..Len(q) |-> q[Len(q) + 1 - n]]

\* the first loop of validateTool: a step name is used twice
DuplicateStepNames(def) ==
    \E m, n \in 1..Len(def) : m < n /\ def[m].name = def[n].name

\* graph of checkCircularDependencies: step name -> the step names its input
\* refers to
Graph(def) ==
    [name \in { def[n].name : n \in 1..Len(def) } |->
        def[CHOOSE n \in 1..Len(def) :
                def[n].name = name /\ \A m \in (n + 1)..Len(def) : def[m].name # name].refs]

NeverOnPath(path, node) == FALSE

\* path.has(node)
OnPath(path, node) == node \in Range(path)

RECURSIVE Dfs(_, _, _, _)
RECURSIVE DfsDeps(_, _, _, _)

\* dfs(node) of checkCircularDependencies with the sets visited and path as
\* they are at the call: the cycle it throws (no cycle: the empty sequence) and
\* visited afterwards
Dfs(graph, node, visited, path) ==
    IF OnPath(path, node)
    THEN [cycle |-> SubSeq(path, IndexOf(path, node), Len(path)), visited |-> visited]
    ELSE IF node \in visited THEN [cycle |-> << >>, visited |-> visited]
    ELSE DfsDeps(graph, IF node \in DOMAIN graph THEN graph[node] ELSE << >>,
                 visited \cup { node }, Append(path, node))

\* for (const dep of deps) dfs(dep)
DfsDeps(graph, deps, visited, path) ==
    IF deps = << >> THEN [cycle |-> << >>, visited |-> visited]
    ELSE LET r == Dfs(graph, Head(deps), visited, path)
         IN  IF r.cycle # << >> THEN r
             ELSE DfsDeps(graph, Tail(deps), r.visited, path)

RECURSIVE DfsSteps(_, _, _)

\* for (const step of tool.steps) dfs(step.name), from step n on
DfsSteps(def, n, visited) ==
    IF n > Len(def) THEN << >>
    ELSE LET r == Dfs(Graph(def), def[n].name, visited, << >>)
         IN  IF r.cycle # << >> THEN r.cycle ELSE DfsSteps(def, n + 1, r.visited)

\* checkCircularDependencies: the cycle of the error it throws, or << >>
CheckCircularDependencies(def) == DfsSteps(def, 1, {})

\* hub.getToolsByServer(s): the tools recorded when a connection of s listed them
GetToolsByServer(s) == IF handshakes[s] > 0 THEN BackendTools ELSE {}

\* validateTool: the error it throws, or "registered"
ValidateTool(def) ==
    IF DuplicateStepNames(def) THEN "duplicate"
    ELSE IF CheckCircularDependencies(def) # << >> THEN "circular"
    ELSE IF \E n \in 1..Len(def) : def[n].tool \notin GetToolsByServer(ExecServer)
    THEN "invalidTool"
    ELSE "registered"

SetAlways(tools, def, outcome) == def

\* this.tools after registerTool: validateTool throws before this.tools.set;
\* the entry of the tool's name is << >> while there is none
SetTool(tools, def, outcome) == IF outcome = "registered" THEN def ELSE tools

\* registerTool(tool) with steps def, under the name every definition has
RegisterTool(def) ==
    /\ co.registrations < MaxRegistrations
    /\ co' = [co EXCEPT !.def = def, !.reg = ValidateTool(def),
                        !.cycle = IF ValidateTool(def) = "circular"
                                  THEN CheckCircularDependencies(def) ELSE << >>,
                        !.tools = SetTool(@, def, ValidateTool(def)),
                        !.registrations = @ + 1]
    /\ UNCHANGED << env, sd, ex, configLoaded, initialized, connections, conns, nextGen,
                    connectionRetryAttempts, toolCallQueue, inflight,
                    activeOperationCount, th, cl, ini, started, handshakes, faulty,
                    faults, lastDispatched, order >>

(***************************************************************************)
(* CompositionExecutor.executeTool                                         *)
(***************************************************************************)
\* the tool every rollback of the definitions names
CompensatorTool == DeleteRepo

\* state.steps.find(s => s.stepName === name): its index, 0 when there is none
FindStep(def, name) ==
    IF \E n \in 1..Len(def) : def[n].name = name
    THEN CHOOSE n \in 1..Len(def) :
             def[n].name = name /\ \A m \in 1..(n - 1) : def[m].name # name
    ELSE 0

ConditionIgnored(cond, r) == "true"

\* evaluateCondition: "true", "false", or "throw" for a step name that is not
\* in the tool
EvaluateCondition(cond, r) ==
    IF cond.type = "none" \/ cond.stepName = "" THEN "true"
    ELSE IF FindStep(r.def, cond.stepName) = 0 THEN "throw"
    ELSE IF cond.type = "success"
    THEN IF r.status[FindStep(r.def, cond.stepName)] = "success" THEN "true" ELSE "false"
    ELSE IF cond.type = "failure"
    THEN IF r.status[FindStep(r.def, cond.stepName)] = "failed" THEN "true" ELSE "false"
    ELSE "true"

OnlyFailed(status) == status = "failed"

\* step.status !== 'success'
NotCompleted(status) == status # "success"

\* the error resolveParameters throws for a reference to the step of this
\* name: "Referenced step not found", "Referenced step has not completed
\* successfully" (ReferenceUnavailable), "Output not found in step"
RefError(name, r) ==
    IF FindStep(r.def, name) = 0 THEN "StepNotFound"
    ELSE IF NotCompleted(r.status[FindStep(r.def, name)]) THEN "ReferenceUnavailable"
    ELSE IF r.outputs[FindStep(r.def, name)] = 0 THEN "OutputNotFound"
    ELSE "none"

\* resolveParameters: the error of the first entry that does not resolve, or
\* "none" when it returns
ResolveError(refs, r) ==
    IF \E n \in 1..Len(refs) : RefError(refs[n], r) # "none"
    THEN RefError(refs[CHOOSE n \in 1..Len(refs) :
                          /\ RefError(refs[n], r) # "none"
                          /\ \A m \in 1..(n - 1) : RefError(refs[m], r) = "none"], r)
    ELSE "none"

\* resolveParameters returns
Resolves(refs, r) == ResolveError(refs, r) = "none"

\* the input of the rollback of a step
RollbackRefs(step) == IF step.rb = "own" THEN << step.name >> ELSE << >>

\* the parameters of a rollback, resolved: the output of the step, or literals
RollbackParams(step, r) ==
    IF step.rb = "own" THEN r.outputs[FindStep(r.def, step.name)] ELSE 0

\* the result of executeTool; info: rollbackInfo, present in the result of the
\* catch only
CoDone(r, ok, info) ==
    [r EXCEPT !.pc = "done", !.success = ok, !.rollbackInfo = info, !.want = << >>,
              !.call = 0]

\* rollbackInfo as performRollback returns it
RollbackInfo(triggered, successful) ==
    [present |-> TRUE, triggered |-> triggered, successful |-> successful]

\* performRollback up to its first hub call, and the return of the catch of
\* executeTool when the stack is empty
PerformRollback(r) ==
    IF r.stack = << >>
    THEN CoDone(r, FALSE, RollbackInfo(FALSE, TRUE))
    ELSE [r EXCEPT !.stack = Reverse(@), !.k = 1, !.pc = "rollback",
                   !.want = CompensatorTool]

RECURSIVE RunSteps(_)

StepFailureSkipped(r) == RunSteps([r EXCEPT !.status[r.i] = "failed", !.i = @ + 1])

\* the catch of the step body (the step is failed, the error rethrown) and the
\* catch of executeTool
StepFailed(r) == PerformRollback([r EXCEPT !.status[r.i] = "failed"])

\* the for loop of executeTool from step r.i on, up to the hub call of a step
\* or to the end of the execution
RunSteps(r) ==
    IF r.i > Len(r.def) THEN CoDone(r, TRUE, r.rollbackInfo)
    ELSE LET step == r.def[r.i]
             c == EvaluateCondition(step.cond, r)
         IN  IF c = "throw" THEN PerformRollback(r)
             ELSE IF c = "false"
             THEN RunSteps([r EXCEPT !.status[r.i] = "skipped", !.i = @ + 1])
             ELSE IF ~Resolves(step.refs, r)
             THEN StepFailed([r EXCEPT !.errors[r.i] = ResolveError(step.refs, r)])
             ELSE [r EXCEPT !.status[r.i] = "running", !.pc = "step",
                            !.want = step.tool]

\* the step body after its hub call returned value: the output is stored, the
\* step is a success, its rollback is pushed with its parameters resolved now
StepSucceeded(r, value) ==
    LET step == r.def[r.i]
        r1 == [r EXCEPT !.outputs[r.i] = IF step.out THEN value ELSE 0,
                        !.status[r.i] = "success"]
    IN  IF step.rb = "none" THEN RunSteps([r1 EXCEPT !.i = @ + 1])
        ELSE IF ~Resolves(RollbackRefs(step), r1)
        THEN StepFailed([r1 EXCEPT !.errors[r.i] = ResolveError(RollbackRefs(step), r1)])
        ELSE RunSteps([r1 EXCEPT
                 !.stack = Append(@, [step |-> r.i,
                                      params |-> RollbackParams(step, r1)]),
                 !.i = @ + 1])

\* the loop of performRollback after the hub call of the operation r.k of the
\* reversed stack settled, with its catch around the whole loop
CompensatorSettled(r, ok) ==
    IF ~ok THEN CoDone(r, FALSE, RollbackInfo(TRUE, FALSE))
    ELSE IF r.k < Len(r.stack) THEN [r EXCEPT !.k = @ + 1]
    ELSE CoDone(r, FALSE, RollbackInfo(TRUE, TRUE))

\* the composition executor goes on as r says: it starts the hub call r waits
\* for, if any, and notes it in the history of its calls
CompAdvance(r) ==
    IF r.pc \in { "step", "rollback" }
    THEN /\ started < MaxCallers
         /\ co' = [r EXCEPT
                !.call = started + 1,
                !.calls = Append(@,
                    IF r.pc = "step"
                    THEN [kind |-> "step", step |-> r.i, id |-> started + 1, params |-> 0]
                    ELSE [kind |-> "rollback", step |-> r.stack[r.k].step,
                          id |-> started + 1, params |-> r.stack[r.k].params])]
         /\ CallToolStart(started + 1, ExecServer, r.want)
         /\ UNCHANGED ex
    ELSE /\ co' = r
         /\ UNCHANGED << env, sd, ex, configLoaded, initialized, connections, conns,
                         nextGen, connectionRetryAttempts, toolCallQueue, inflight,
                         activeOperationCount, th, cl, ini, started, handshakes,
                         faulty, faults, lastDispatched, order >>

\* compositionExecutor.executeTool(name, params) of the registered tool; valid:
\* tool.inputSchema.parse(params) returns
ExecuteComposed(valid) ==
    /\ co.tools # << >>
    /\ co.pc = "idle"
    /\ CompAdvance(IF ~valid THEN [co EXCEPT !.def = co.tools, !.pc = "threw"]
                   ELSE RunSteps([co EXCEPT
                            !.def = co.tools,
                            !.i = 1,
                            !.status = [n \in 1..Len(co.tools) |-> "pending"],
                            !.errors = [n \in 1..Len(co.tools) |-> "none"],
                            !.outputs = [n \in 1..Len(co.tools) |-> 0]]))

\* the hub call the composition executor awaits has settled
CompCallSettled == co.call # 0 /\ th[co.call].pc = "done"
CompCallOk == cl[co.call].result = "ok"

\* the hub call of a step settled
StepDone ==
    /\ co.pc = "step"
    /\ CompCallSettled
    /\ CompAdvance(IF CompCallOk THEN StepSucceeded(co, co.call)
                   ELSE StepFailed([co EXCEPT !.errors[co.i] = "callFailed"]))

\* the hub call of a rollback operation settled
CompensatorDone ==
    /\ co.pc = "rollback"
    /\ CompCallSettled
    /\ CompAdvance(CompensatorSettled(co, CompCallOk))

\* generateResult: the status reported for step n
ReportedStatus(r, n) ==
    IF r.status[n] \in { "pending", "running" } THEN "skipped" ELSE r.status[n]

(***************************************************************************)
(* Harnesses: the same actions under several environments.                 *)
(***************************************************************************)
HubTools == { SayTool }
ListTools == { SayTool, AbsentTool }

Connecting ==
    \E t \in Threads :
        \/ DisconnectServerDone(t)
        \/ ConnectServerCreate(t)
        \/ ConnectOk(t)
        \/ ConnectFail(t)
        \/ InitializeOk(t)
        \/ InitializeFail(t)
        \/ EnsureConnectionDone(t)

Calling ==
    \E c \in Callers :
        \/ CallToolConnectFailed(c)
        \/ CallToolConnected(c)
        \/ ListToolsOk(c)
        \/ ListToolsFail(c)
        \/ BackoffDone(c)
        \/ RetryEnqueue(c)

Replying == \E s \in AllServers : ToolCallOk(s) \/ ToolCallFail(s)

Transport ==
    \E s \in AllServers, g \in Gens :
        \/ TransportCrash(s, g)
        \/ TransportOnError(s, g)

Reconnecting == \E t \in Reconnectors, s \in cfgFile : ReconnectServer(t, s)

ManualReconnect == \E s \in cfgFile : ReconnectServer(ReconnectId(1), s)

\* The hub harness: the dev server awaits one initialize() before it listens;
\* then any interleaving of callTool invocations and one reconnectServer
\* invocation against backends that may fail.
Next ==
    \/ InitializeCall(1) \/ InitializeConnectAll(1) \/ InitializeDone(1)
    \/ \E c \in 1..HubCallers, s \in cfgFile, t \in HubTools :
           initialized /\ CallToolStart(c, s, t) /\ UNCHANGED << ex, co >>
    \/ ManualReconnect
    \/ Connecting
    \/ Calling
    \/ Replying
    \/ Transport

Spec == Init /\ [][Next]_vars

\* The connection harness: any interleaving of initialize() and
\* reconnectServer() invocations against backends whose connect and initialize
\* may fail.
InitConn == InitWith(1..ConnServers, ConnGen)

NextConn ==
    \/ \E i \in Inits : InitializeCall(i) \/ InitializeConnectAll(i) \/ InitializeDone(i)
    \/ Reconnecting
    \/ Connecting

SpecConn == InitConn /\ [][NextConn]_vars

\* The start-up harness: initialize() invocations, possibly overlapping, over
\* several servers whose connect and initialize may fail.
InitBoot == InitWith(1..BootServers, BootGen)

NextBoot ==
    \/ \E i \in Inits : InitializeCall(i) \/ InitializeConnectAll(i) \/ InitializeDone(i)
    \/ \E t \in Tasks :
           \/ DisconnectServerDone(t)
           \/ ConnectServerCreate(t)
           \/ ConnectOk(t)
           \/ ConnectFail(t)
           \/ InitializeOk(t)
           \/ InitializeFail(t)
           \/ EnsureConnectionDone(t)

SpecBoot == InitBoot /\ [][NextBoot]_vars

\* The admission harness: healthy backends; after initialize(), one callTool
\* invocation per caller, caller c on server Pinned(c), so that more than
\* MAX_CONCURRENT_OPERATIONS servers can have a call at once.
InitAdmit == InitWith(1..AdmitServers, AdmitGen)

Pinned(c) == ((c - 1) % AdmitServers) + 1

NextAdmit ==
    \/ InitializeCall(1) \/ InitializeConnectAll(1) \/ InitializeDone(1)
    \/ \E t \in Tasks : ConnectOk(t) \/ InitializeOk(t) \/ EnsureConnectionDone(t)
    \/ \E c \in 1..AdmitCallers :
           initialized /\ CallToolStart(c, Pinned(c), SayTool) /\ UNCHANGED << ex, co >>
    \/ \E c \in 1..AdmitCallers : ListToolsOk(c) \/ BackoffDone(c) \/ RetryEnqueue(c)
    \/ \E s \in AllServers : ToolCallOk(s)

SpecAdmit == InitAdmit /\ [][NextAdmit]_vars

\* The executor harness: after initialize() on a healthy connection, one
\* executeTool invocation; the hook, the LLM and the tool calls may fail.
InitExec == InitWith({ExecServer}, ExecGen)

ExecTools == { SayTool, DeleteRepo, RemoveRepo, ModifyRepo, AbsentTool }

\* the arguments of the caller: none, the required field, the keys of the
\* schema object
ExecArgs ==
    { NoArgs, [f \in { "name" } |-> "caller"], [f \in SchemaKeys |-> "caller"] }

\* the server context: no defaults, a server-wide default of the required
\* field, a default of the tool's own on top of it
ExecContexts ==
    { [tool |-> NoArgs, server |-> NoArgs],
      [tool |-> NoArgs, server |-> [f \in { "name" } |-> "serverDefault"]],
      [tool |-> [f \in { "name" } |-> "toolDefault"],
       server |-> [f \in { "name" } |-> "serverDefault"]] }

\* what the LLM provides: nothing, the required field, the keys of the schema
\* object
LlmValues ==
    { NoArgs, [f \in { "name" } |-> "llm"], [f \in SchemaKeys |-> "llm"] }

NextExec ==
    \/ InitializeCall(1) \/ InitializeConnectAll(1) \/ InitializeDone(1)
    \/ \E t \in Tasks : ConnectOk(t) \/ InitializeOk(t) \/ EnsureConnectionDone(t)
    \/ \E t \in ExecTools, a \in ExecArgs, l \in BOOLEAN, x \in ExecContexts :
           initialized /\ ExecuteTool(t, a, l, x)
    \/ ProbeDone
    \/ \E answer \in {"yes", "no", "throws"} : ConfirmReply(answer)
    \/ \E p \in LlmReplies, v \in LlmValues : LlmReply(p, v)
    \/ CallDone
    \/ RollbackDone
    \/ \E c \in Callers :
           ListToolsOk(c) \/ ListToolsFail(c) \/ BackoffDone(c) \/ RetryEnqueue(c)
    \/ Replying

SpecExec == InitExec /\ [][NextExec]_vars

\* the steps of the hub itself: continuations of its awaits, timers, and the
\* replies of the backends
Progress ==
    \/ InitializeConnectAll(1) \/ InitializeDone(1)
    \/ Connecting
    \/ Calling
    \/ Replying

\* a step of the hub that only the pool of connection objects keeps from
\* happening (a bound of the model)
PoolBlocks ==
    \E t \in Threads :
        \/ th[t].pc = "creating" /\ ~CanCreate(th[t].srv)
        \/ th[t].pc = "backoff" /\ ~EcFeasible(th[t].srv, HasConfig(th[t].srv))

\* The hub with its scheduling: the event loop runs every continuation that is
\* ready, timers fire, and the backends settle the requests they were sent;
\* new invocations, reconnects and transport events need not happen.
SpecSettle == Init /\ [][Next]_vars /\ WF_vars(Progress)

\* The listing harness: after initialize() on a healthy connection, callTool
\* invocations whose tools/list request may be answered, fail, or outlast the
\* timer of listTools.
NextList ==
    \/ InitializeCall(1) \/ InitializeConnectAll(1) \/ InitializeDone(1)
    \/ \E t \in Tasks : ConnectOk(t) \/ InitializeOk(t) \/ EnsureConnectionDone(t)
    \/ \E c \in 1..HubCallers, t \in ListTools :
           initialized /\ CallToolStart(c, ExecServer, t) /\ UNCHANGED << ex, co >>
    \/ \E c \in Callers :
           \/ ListToolsTimeout(c) \/ ListToolsOk(c) \/ ListToolsFail(c)
           \/ BackoffDone(c) \/ RetryEnqueue(c)
    \/ Replying

SpecList == InitExec /\ [][NextList]_vars

\* The registration harness: initialize() on a healthy backend, a registerTool
\* call with a definition of up to RegSteps steps, and further registerTool
\* calls under the same name with definitions of up to ReRegSteps steps.
StepName(n) == << "A", "B", "C", "D", "E" >>[n]

\* the output references of a step's input: up to two names, of steps of the
\* definition or of no step
RefChoices(len) ==
    LET names == { StepName(n) : n \in 1..len }
    IN  { << >>, << "Z" >> } \cup { << a >> : a \in names }
            \cup { p \in names \X names : p[1] # p[2] }

\* a definition whose step n refers to refs[n]; dup: the last step is named as
\* the first; bad: the last step names a tool the server does not have
RegDef(len, refs, dup, bad) ==
    [n \in 1..len |->
        [name |-> IF dup /\ n = len THEN StepName(1) ELSE StepName(n),
         tool |-> IF bad /\ n = len THEN AbsentTool ELSE CreateRepo,
         refs |-> refs[n], out |-> TRUE, cond |-> NoCondition, rb |-> "none"]]

NextRegister ==
    \/ InitializeCall(1) \/ InitializeConnectAll(1) \/ InitializeDone(1)
    \/ \E t \in Tasks : ConnectOk(t) \/ InitializeOk(t) \/ EnsureConnectionDone(t)
    \/ \E len \in 1..RegSteps, dup \in BOOLEAN, bad \in BOOLEAN :
           \E refs \in [1..len -> RefChoices(len)] :
               initialized /\ co.registrations = 0 /\ RegisterTool(RegDef(len, refs, dup, bad))
    \/ \E len \in 1..ReRegSteps, dup \in BOOLEAN, bad \in BOOLEAN :
           \E refs \in [1..len -> RefChoices(len)] :
               co.registrations > 0 /\ RegisterTool(RegDef(len, refs, dup, bad))

SpecRegister == InitExec /\ [][NextRegister]_vars

\* The composition harness: after initialize() on a healthy connection, one
\* registerTool call and one executeTool call of the registered tool, whose hub
\* calls may fail.
StepKinds ==
    { "plain", "ownRollback", "ownRollbackNoOutput", "plainRollback", "refPrevious",
      "refNext", "ifPreviousSucceeded", "ifPreviousFailed", "ifNextSucceeded",
      "ifUnknownSucceeded" }

\* step n of a definition, of the given kind
CompStep(kind, n) ==
    [name |-> StepName(n),
     tool |-> CreateRepo,
     refs |-> CASE kind = "refPrevious" /\ n > 1 -> << StepName(n - 1) >>
                [] kind = "refNext" -> << StepName(n + 1) >>
                [] OTHER -> << >>,
     out |-> kind \notin { "ownRollbackNoOutput", "plainRollback" },
     cond |-> CASE kind = "ifPreviousSucceeded" /\ n > 1 ->
                      [type |-> "success", stepName |-> StepName(n - 1)]
                [] kind = "ifPreviousFailed" /\ n > 1 ->
                      [type |-> "failure", stepName |-> StepName(n - 1)]
                [] kind = "ifNextSucceeded" ->
                      [type |-> "success", stepName |-> StepName(n + 1)]
                [] kind = "ifUnknownSucceeded" ->
                      [type |-> "success", stepName |-> "Z"]
                [] OTHER -> NoCondition,
     rb |-> CASE kind \in { "ownRollback", "ownRollbackNoOutput" } -> "own"
              [] kind \in { "plainRollback", "ifPreviousSucceeded" } -> "plain"
              [] OTHER -> "none"]

CompDef(len, kinds) == [n \in 1..len |-> CompStep(kinds[n], n)]

NextCompose ==
    \/ InitializeCall(1) \/ InitializeConnectAll(1) \/ InitializeDone(1)
    \/ \E t \in Tasks : ConnectOk(t) \/ InitializeOk(t) \/ EnsureConnectionDone(t)
    \/ \E len \in 1..CompSteps : \E kinds \in [1..len -> StepKinds] :
           initialized /\ co.registrations = 0 /\ RegisterTool(CompDef(len, kinds))
    \/ \E valid \in BOOLEAN : ExecuteComposed(valid)
    \/ StepDone
    \/ CompensatorDone
    \/ \E c \in Callers :
           ListToolsOk(c) \/ ListToolsFail(c) \/ BackoffDone(c) \/ RetryEnqueue(c)
    \/ Replying

SpecCompose == InitExec /\ [][NextCompose]_vars

\* The shutdown harness: the hub harness without transport events, and one
\* SIGINT at any moment; nothing runs once the process has ended.
NextShutdown ==
    \/ ProcessAlive /\ InitializeCall(1)
    \/ ProcessAlive /\ InitializeConnectAll(1)
    \/ ProcessAlive /\ InitializeDone(1)
    \/ \E c \in 1..HubCallers, s \in cfgFile, t \in HubTools :
           ProcessAlive /\ initialized /\ CallToolStart(c, s, t) /\ UNCHANGED << ex, co >>
    \/ \E t \in Threads : ProcessAlive /\ DisconnectServerDone(t)
    \/ \E t \in Threads : ProcessAlive /\ ConnectServerCreate(t)
    \/ \E t \in Threads : ProcessAlive /\ ConnectOk(t)
    \/ \E t \in Threads : ProcessAlive /\ ConnectFail(t)
    \/ \E t \in Threads : ProcessAlive /\ InitializeOk(t)
    \/ \E t \in Threads : ProcessAlive /\ InitializeFail(t)
    \/ \E t \in Threads : ProcessAlive /\ EnsureConnectionDone(t)
    \/ \E c \in Callers : ProcessAlive /\ CallToolConnectFailed(c)
    \/ \E c \in Callers : ProcessAlive /\ CallToolConnected(c)
    \/ \E c \in Callers : ProcessAlive /\ ListToolsOk(c)
    \/ \E c \in Callers : ProcessAlive /\ ListToolsFail(c)
    \/ \E c \in Callers : ProcessAlive /\ BackoffDone(c)
    \/ \E c \in Callers : ProcessAlive /\ RetryEnqueue(c)
    \/ \E s \in AllServers : ProcessAlive /\ ToolCallOk(s)
    \/ \E s \in AllServers : ProcessAlive /\ ToolCallFail(s)
    \/ Sigint
    \/ SigintResumed
    \/ UnhandledRejection

SpecShutdown == Init /\ [][NextShutdown]_vars

(***************************************************************************)
(* Properties                                                              *)
(***************************************************************************)

\* C1: at every moment at most one tools/call request of a server is in
\* flight, whatever the interleaving of the callTool invocations.
C1_OneInFlightPerServer == \A s \in AllServers : Cardinality(inflight[s]) <= 1

\* a call is in flight while a second call of the same server waits in the queue
C1_Witness ==
    \E s \in AllServers : Len(toolCallQueue[s]) >= 2 /\ Cardinality(inflight[s]) = 1

\* C2: the tools/call requests of a server are dispatched in the order in
\* which their callTool invocations were accepted (callers are accepted in the
\* order of their ids), a retried request included.
C2_DispatchInAcceptanceOrder ==
    [][\A s \in AllServers : lastDispatched'[s] >= lastDispatched[s]]_vars

\* C3: a callTool that meets the cap fails at once with the overload error: no
\* back-off, no retry, no ensureConnection.
C3_OverloadFailsFast ==
    \A c \in Callers :
        cl[c].lastError = "overloaded" =>
            th[c].pc = "done" /\ cl[c].result = "OverloadedError"

\* C4: the count of active operations stays within 0..MAX_CONCURRENT_OPERATIONS.
C4_CounterWithinCap == activeOperationCount \in 0..MAX_CONCURRENT_OPERATIONS

\* the counter is at the cap, a call was turned away for it, and a call waits in
\* a queue behind the one in flight
C4_Witness ==
    /\ activeOperationCount = MAX_CONCURRENT_OPERATIONS
    /\ \E c \in Callers : cl[c].lastError = "overloaded"
    /\ \E s \in AllServers : Len(toolCallQueue[s]) >= 2

\* C5: ensureConnection is idempotent: however many calls are made against a
\* backend that never fails, one after another or overlapping, the backend
\* sees at most one successful initialize handshake.
C5_OneHandshake == \A s \in AllServers : ~faulty[s] => handshakes[s] <= 1

\* C6: every failed connect attempt adds one to the retry count of its server;
\* an ensureConnection call made when the count is at the cap fails with the
\* max-retries error without a connect attempt; the count never exceeds the cap.
C6_RetryCount ==
    [][/\ \A t \in Tasks \cup Reconnectors :
              /\ (/\ th[t].pc \notin {"idle", "ecThrew"}
                  /\ th'[t].pc = "ecThrew" /\ th'[t].err = "connect")
                     => connectionRetryAttempts'[th'[t].srv] =
                            connectionRetryAttempts[th'[t].srv] + 1
              /\ (/\ th[t].pc = "idle" /\ th'[t].pc # "idle"
                  /\ connectionRetryAttempts[th'[t].srv] >= MAX_RETRY_ATTEMPTS)
                     => th'[t].pc = "ecThrew" /\ th'[t].err = "maxRetries"
       /\ \A s \in AllServers : connectionRetryAttempts'[s] <= MAX_RETRY_ATTEMPTS]_vars

\* C7: reconnectServer resets the retry count, so a manual reconnect is never
\* turned away by the retry cap.
C7_ReconnectResets ==
    \A t \in Reconnectors : ~(th[t].pc = "ecThrew" /\ th[t].err = "maxRetries")

\* C8: initialize() starts ensureConnection for every configured server, never
\* throws, ends with isInitialized true, and an initialize() called once
\* isInitialized is true returns at once and touches no connection.
C8_InitializeContract ==
    [][\A i \in Inits :
          /\ ini'[i] # "threw"
          /\ ini'[i] = "done" => initialized'
          /\ ini'[i] = "waiting" => \A s \in cfgFile : th'[TaskId(i, s)].pc # "idle"
          /\ (ini[i] = "idle" /\ ini'[i] # "idle" /\ initialized)
                => /\ ini'[i] = "done"
                   /\ UNCHANGED << connections, conns, nextGen, th,
                                   connectionRetryAttempts, configLoaded >>]_vars

\* the first initialize() has returned with one server connected and another
\* one failed, and a second initialize() has returned without starting a task
C8_Witness ==
    /\ ini[1] = "done" /\ ini[2] = "done"
    /\ \E s \in cfgFile : th[TaskId(1, s)].pc = "ecThrew"
    /\ \E s \in cfgFile : IsConnected(s)
    /\ \A s \in cfgFile : th[TaskId(2, s)].pc = "idle"

\* C9: one callTool invocation causes at most MAX_RETRY_ATTEMPTS tools/call
\* dispatches, and it never hangs: a caller that waits for its queued call has
\* the queue of its server being worked on (a request of that server is in
\* flight, whose completion dispatches the next entry).
C9_BoundedRetriesNoHang ==
    \A c \in Callers :
        /\ cl[c].dispatched <= MAX_RETRY_ATTEMPTS
        /\ th[c].pc = "awaitCall" => inflight[th[c].srv] # {}

\* C10: when the confirmation hook answers no for a dangerous tool, executeTool
\* returns the denial and no tools/call request was sent to the server during
\* the invocation.
C10_DeniedSendsNoRequest ==
    ex.result = "UserDenied" => \A c \in Callers : cl[c].dispatched = 0

\* C11: with LLM completion disabled, missingFields is exactly the set of the
\* required fields of the descriptor that the caller did not supply and that
\* have no default; the call is valid iff that set is empty, and an invalid
\* call returns that list without a tools/call request of the tool.
C11_MissingFieldsAreRequired ==
    LET requiredMissing ==
            { f \in Required(ex.tool) \ DOMAIN ex.given :
                  GetServerDefault(ex.ctx, f) = Undefined }
    IN  (ex.pc = "done" /\ ~ex.llm) =>
            /\ ex.result = "ok" => requiredMissing = {}
            /\ ex.result = "MissingFields" =>
                   /\ ex.missing = requiredMissing
                   /\ requiredMissing # {}
                   /\ \A c \in Callers : cl[c].tool = ex.tool => cl[c].dispatched = 0

\* C12: for a tool that needs no confirmation, when the caller leaves out the
\* required field and the server context has a default for it, executeTool
\* dispatches the call, without asking the LLM, with the caller's arguments
\* unchanged plus the default, the tool's own default before the server-wide one.
C12_DefaultInjected ==
    ( /\ ex.pc = "done"
      /\ ex.tool \in ToolSchemas
      /\ ~RequiresConfirmation(ex.tool)
      /\ "name" \notin DOMAIN ex.given
      /\ GetServerDefault(ex.ctx, "name") # Undefined ) =>
        /\ ex.result \in { "ok", "Failed" }
        /\ ex.llmCalls = 0
        /\ ex.sent = Merge([f \in { "name" } |->
                                IF "name" \in DOMAIN ex.ctx.tool THEN ex.ctx.tool["name"]
                                ELSE ex.ctx.server["name"]],
                           ex.given)

\* C13: executeTool never rejects: whatever fails, the invocation ends with a
\* returned result, and every result other than the success carries an error.
C13_NeverThrows ==
    ex.pc = "done" =>
        ex.result \in { "ok", "ToolNotFound", "UserDenied", "MissingFields",
                        "UserInputRequired", "Failed", "FailedAfterAttempts" }

\* the operation failed, the rollback call failed as well, and executeTool
\* returned both errors
C13_Witness ==
    /\ ex.pc = "done"
    /\ ex.result = "Failed"
    /\ ex.rbCall # 0
    /\ cl[ex.rbCall].result # "ok"
    /\ ex.rollbackError

\* C14: when an error is thrown after the previous state of a dangerous tool
\* was captured, rollback is attempted and the result carries rollbackError
\* exactly when the rollback call failed.
C14_RollbackAfterCapture ==
    (ex.pc = "done" /\ ex.result = "Failed" /\ ex.captured) =>
        /\ ex.rollbacks >= 1
        /\ ex.rollbackError <=> (ex.rbCall # 0 /\ cl[ex.rbCall].result # "ok")

\* C15: in every composed tool registerTool accepted, every output reference of
\* a step's input names a step that comes earlier in the step order.
C15_ReferencesPrecede ==
    co.reg = "registered" =>
        \A n \in 1..Len(co.def) : \A ref \in Range(co.def[n].refs) :
            \E m \in 1..(n - 1) : co.def[m].name = ref

\* C16: a definition with distinct step names is rejected with the
\* circular-dependency error iff the graph from each step to the steps its
\* input refers to has a cycle (a self-reference included); the path reported
\* is a cycle of that graph; so every registered tool is acyclic.
C16_CircularIffCycle ==
    LET names == { co.def[n].name : n \in 1..Len(co.def) }
        refsOf(a) == Range(co.def[CHOOSE n \in 1..Len(co.def) : co.def[n].name = a].refs)
        isCycle(p) == /\ \A n \in 1..Len(p) : p[n] \in names
                      /\ \A n \in 1..(Len(p) - 1) : p[n + 1] \in refsOf(p[n])
                      /\ p[1] \in refsOf(p[Len(p)])
        hasCycle == \E len \in 1..Len(co.def) : \E p \in [1..len -> names] : isCycle(p)
    IN  (co.reg # "none" /\ ~DuplicateStepNames(co.def)) =>
            /\ co.reg = "circular" <=> hasCycle
            /\ co.reg = "circular" => co.cycle # << >> /\ isCycle(co.cycle)

\* a definition was rejected for a cycle through all of its three steps
C16_Witness == co.reg = "circular" /\ Len(co.cycle) = 3

\* C17: the hub calls of the steps of one execution are made in declaration
\* order, each after the call before it has settled; after a failed step no
\* step call is made, and the later steps are reported as skipped.
C17_StepsInOrderStopAtFailure ==
    LET isStep(e) == e.kind = "step"
        stepCalls == SelectSeq(co.calls, isStep)
    IN  /\ \A a, b \in 1..Len(stepCalls) :
               a < b => /\ stepCalls[a].step < stepCalls[b].step
                        /\ th[stepCalls[a].id].pc = "done"
                        /\ cl[stepCalls[a].id].result = "ok"
        /\ \A n \in 1..Len(co.status) :
               co.status[n] = "failed" =>
                   /\ \A a \in 1..Len(stepCalls) : stepCalls[a].step <= n
                   /\ co.pc = "done" =>
                          \A m \in (n + 1)..Len(co.status) :
                              ReportedStatus(co, m) = "skipped"

\* the first step succeeded, the call of the second failed, the third was not
\* called and is reported as skipped
C17_Witness ==
    /\ co.pc = "done"
    /\ Len(co.def) = 3
    /\ co.status = << "success", "failed", "pending" >>
    /\ \E e \in Range(co.calls) : e.kind = "step" /\ e.step = 2 /\ cl[e.id].result # "ok"

\* C18: when a step failed, every operation of the rollback stack is invoked,
\* in the reverse order of the successes, whether or not an operation fails.
C18_RollbackDrainsStack ==
    LET isRollback(e) == e.kind = "rollback"
        rollbacks == SelectSeq(co.calls, isRollback)
    IN  (co.pc = "done" /\ ~co.success) =>
            /\ Len(rollbacks) = Len(co.stack)
            /\ \A a, b \in 1..Len(rollbacks) :
                   a < b => rollbacks[a].step > rollbacks[b].step

\* C19: whenever a step failed, the result has success false and a
\* rollbackInfo with triggered true, and with successful true iff every
\* operation of the rollback stack was invoked and succeeded.
C19_FailureReportsRollback ==
    LET isRollback(e) == e.kind = "rollback"
        rollbacks == SelectSeq(co.calls, isRollback)
    IN  (co.pc = "done" /\ \E n \in 1..Len(co.status) : co.status[n] = "failed") =>
            /\ ~co.success
            /\ co.rollbackInfo.present
            /\ co.rollbackInfo.triggered
            /\ co.rollbackInfo.successful <=>
                   /\ Len(rollbacks) = Len(co.stack)
                   /\ \A a \in 1..Len(rollbacks) : cl[rollbacks[a].id].result = "ok"

\* C20: when the tool call of a step failed, the rollback of every step that
\* succeeded before it and declares one is issued exactly once, with the
\* parameters resolved when that step succeeded (its own output where the
\* rollback takes it), and no rollback is issued for a step that did not succeed.
C20_CompensatorsIssuedOnce ==
    LET isRollback(e) == e.kind = "rollback"
        rollbacks == SelectSeq(co.calls, isRollback)
    IN  ( /\ co.pc = "done"
          /\ \E e \in Range(co.calls) :
                 e.kind = "step" /\ co.status[e.step] = "failed" /\ cl[e.id].result # "ok" ) =>
            /\ \A m \in 1..Len(co.def) :
                   (co.status[m] = "success" /\ co.def[m].rb # "none") =>
                       /\ Cardinality({ a \in 1..Len(rollbacks) : rollbacks[a].step = m }) = 1
                       /\ \A a \in 1..Len(rollbacks) :
                              rollbacks[a].step = m =>
                                  rollbacks[a].params =
                                      IF co.def[m].rb = "own" THEN co.outputs[m] ELSE 0
            /\ \A a \in 1..Len(rollbacks) : co.status[rollbacks[a].step] = "success"

\* C21: a step whose condition names a step declared after it makes the
\* execution fail: the step is neither skipped nor run, and the execution does
\* not succeed.
C21_FutureConditionFails ==
    \A n \in 1..Len(co.status) :
        ( /\ co.def[n].cond.stepName # ""
          /\ FindStep(co.def, co.def[n].cond.stepName) > n
          /\ co.i >= n ) =>
            /\ co.status[n] \in { "pending", "failed" }
            /\ co.pc = "done" => ~co.success

\* C22: a step whose input refers to the output of a step that is not in state
\* success (the entries before it resolving) fails with ReferenceUnavailable:
\* it is marked failed and no hub call is made for it.
C22_UnavailableReferenceFails ==
    \A n \in 1..Len(co.status) :
        LET refs == co.def[n].refs
            bad == { a \in 1..Len(refs) :
                       /\ FindStep(co.def, refs[a]) \notin { 0, n }
                       /\ co.status[FindStep(co.def, refs[a])] # "success"
                       /\ \A b \in 1..(a - 1) : RefError(refs[b], co) = "none" }
        IN  (bad # {} /\ co.status[n] \notin { "pending", "skipped" }) =>
                /\ co.status[n] = "failed"
                /\ co.errors[n] = "ReferenceUnavailable"
                /\ \A e \in Range(co.calls) : ~(e.kind = "step" /\ e.step = n)

\* the second step was skipped, and the third, which refers to its output,
\* failed without a hub call
C22_Witness ==
    /\ co.pc = "done"
    /\ Len(co.def) = 3
    /\ co.status = << "success", "skipped", "failed" >>
    /\ co.def[3].refs = << "B" >>
    /\ co.errors[3] = "ReferenceUnavailable"
    /\ Cardinality({ k \in 1..Len(co.calls) : co.calls[k].kind = "step" }) = 1

\* C23: the SIGINT handler closes the server and exits only when every
\* operation that was active at the signal has settled, and an operation that
\* fails does not keep the handler from closing the server and exiting.
C23_ShutdownDrains ==
    /\ sd.pc = "exited" => \A c \in sd.awaited : th[c].pc = "done"
    /\ sd.pc \notin { "aborted", "crashed" }

\* C24: a connection whose status is connected has the capabilities of the
\* initialize reply recorded.
C24_ConnectedHasCapabilities ==
    \A s \in AllServers, g \in Gens :
        conns[s][g].status = "connected" => conns[s][g].tools = Advertised(s)

\* C25: the status the listeners were last told of a connection is the status
\* of the connection: every change is broadcast as it is made, in the order of
\* the changes.
C25_StatusChangesBroadcast ==
    \A s \in AllServers, g \in Gens :
        conns[s][g].status # "absent" => conns[s][g].told = conns[s][g].status

\* a connection that connected and was disconnected by a transport event, and
\* the connection of the reconnect after it, connected
C25_Witness ==
    \E s \in AllServers :
        /\ conns[s][1].status = "disconnected" /\ conns[s][1].told = "disconnected"
        /\ conns[s][1].tools
        /\ conns[s][2].status = "connected" /\ conns[s][2].told = "connected"

\* C26: the k-th tools/call request sent to a server is the one of the k-th
\* entry pushed on the queue of the server.
C26_DispatchInEnqueueOrder ==
    \A s \in AllServers :
        \A k \in 1..Len(order[s].dispatched) : order[s].dispatched[k] = k

\* three requests of two callers were sent: the first caller's, the second
\* caller's, and the retry of the first caller
C26_Witness ==
    \E s \in AllServers :
        /\ Len(order[s].dispatched) = 3
        /\ cl[1].dispatched = 2
        /\ cl[2].dispatched = 1
        /\ lastDispatched[s] = 1

\* C27: the status of a connection changes only from disconnected (or none)
\* to connecting, from connecting to connected or disconnected, and from
\* connected to disconnected, and becomes connected only when the initialize
\* exchange has succeeded.
C27_StatusTransitions ==
    [][\A s \in AllServers, g \in Gens :
           conns'[s][g].status # conns[s][g].status =>
               /\ << conns[s][g].status, conns'[s][g].status >> \in
                      { << "absent", "connecting" >>, << "disconnected", "connecting" >>,
                        << "connecting", "connected" >>,
                        << "connecting", "disconnected" >>,
                        << "connected", "disconnected" >> }
               /\ conns'[s][g].status = "connected" => conns'[s][g].tools]_vars

\* C28: a tools/call request is sent only through a connection whose status is
\* connected when the request is sent.
C28_DispatchOnlyWhenConnected ==
    [][\A s \in AllServers :
           \A e \in inflight'[s] \ inflight[s] :
               conns'[s][e.conn].status = "connected"]_vars

\* C29: the LLM is asked only when llmEnabled is set and a required field of
\* the tool is neither in the current arguments nor defaulted by the server
\* context; with llmEnabled unset it is never asked.
C29_LlmOnlyForMissingRequired ==
    /\ ~ex.llm => ex.llmCalls = 0
    /\ ex.pc = "llm" =>
           /\ ex.llm
           /\ \E f \in Required(ex.tool) :
                  f \notin DOMAIN ex.args /\ GetServerDefault(ex.ctx, f) = Undefined

\* C30: one executeTool invocation asks the LLM at most maxRetries times, and
\* after a promptLLM call that failed (API error, unparsable reply) it has
\* returned the request for user input, so that the LLM is not asked again.
C30_LlmCallsBounded ==
    /\ ex.llmCalls <= DEFAULT_MAX_RETRIES
    /\ ex.llmFailed => ex.pc = "done" /\ ex.result = "UserInputRequired"

\* the LLM was asked three times and its third call failed
C30_Witness ==
    /\ ex.pc = "done"
    /\ ex.llmCalls = DEFAULT_MAX_RETRIES
    /\ ex.llmFailed
    /\ ex.result = "UserInputRequired"


(***************************************************************************)
(* Rollback of a single tool call                                          *)
(***************************************************************************)
\* the name rollback obtains by the verb substitution of the operation type
PairedTool(r) ==
    IF r.opState = "DELETE" THEN CreateName(r.tool) ELSE RestoreName(r.tool)

\* C31: the hub call of a rollback names the paired tool and that tool is in
\* the catalog of the server; a rollback whose paired tool is not in the
\* catalog dispatches no call.
C31_RollbackOnlyIfPairedToolExists ==
    /\ ex.rbCall # 0 =>
           /\ cl[ex.rbCall].tool = PairedTool(ex)
           /\ PairedTool(ex) \in ToolSchemas
    /\ (ex.rollbacks > 0 /\ ex.pc = "done" /\ PairedTool(ex) \notin ToolSchemas) =>
           ex.rbCall = 0

\* a rollback with a captured state whose paired tool is missing has returned
C31_Witness ==
    /\ ex.pc = "done" /\ ex.rollbacks > 0 /\ ex.prev
    /\ ex.tool = ModifyRepo /\ RestoreName(ex.tool) \notin ToolSchemas
    /\ ex.rbCall = 0

\* C32: for a tool that requires confirmation (a dangerous tool without an
\* explicit flag), no tools/call request of that tool is dispatched before the
\* confirmation hook was consulted.
C32_ConfirmedBeforeDispatch ==
    \A c \in Callers :
        (RequiresConfirmation(ex.tool) /\ cl[c].tool = ex.tool /\ cl[c].dispatched > 0)
            => ex.confirmations > 0

(***************************************************************************)
(* The registry of composed tools                                          *)
(***************************************************************************)
\* C33: a registerTool call whose definition names a step twice, or has a step
\* whose tool the server does not have, is rejected; a rejected call leaves
\* the registry as it was, an accepted one stores the definition.
C33_FailedRegistrationStoresNothing ==
    [][co'.registrations # co.registrations =>
          /\ (\/ DuplicateStepNames(co'.def)
              \/ \E n \in 1..Len(co'.def) :
                     co'.def[n].tool \notin GetToolsByServer(ExecServer))
                 => co'.reg \notin { "none", "registered" }
          /\ co'.reg # "registered" => co'.tools = co.tools
          /\ co'.reg = "registered" => co'.tools = co'.def]_vars

\* a definition with an unknown tool was rejected while an earlier definition is
\* stored under the name
C33_Witness ==
    /\ co.registrations = 2 /\ co.reg = "invalidTool"
    /\ co.tools # << >> /\ co.tools # co.def

(***************************************************************************)
(* Conditions of the steps of a composed tool                              *)
(***************************************************************************)
\* C34: a step whose condition of type success (failure) names an existing
\* step X goes on to its execution iff the state of X was success (failed) when
\* the condition was evaluated; otherwise it is skipped, no hub call is made for
\* it, and the loop has gone on to the next step.
C34_ConditionDecidesExecution ==
    co.status # << >> =>
        \A n \in 1..Len(co.def) :
            LET cond == co.def[n].cond
                x == FindStep(co.def, cond.stepName)
                atEvaluation == IF x < n THEN co.status[x] ELSE "pending"
                wanted == IF cond.type = "success" THEN "success" ELSE "failed"
                called == \E k \in 1..Len(co.calls) :
                              co.calls[k].kind = "step" /\ co.calls[k].step = n
            IN  (cond.type \in { "success", "failure" } /\ x # 0
                     /\ co.status[n] # "pending") =>
                    /\ co.status[n] # "skipped" <=> atEvaluation = wanted
                    /\ co.status[n] = "skipped" =>
                           ~called /\ co.i > n /\ co.errors[n] = "none"

\* an execution ended in which a step ran on the success of its predecessor
\* and a later step, conditioned on a failure, was skipped
C34_Witness ==
    /\ co.pc = "done" /\ co.status # << >>
    /\ \E m, n \in 1..Len(co.def) :
           /\ m < n
           /\ co.def[m].cond.type = "success" /\ co.status[m] = "success"
           /\ co.def[n].cond.type = "failure" /\ co.status[n] = "skipped"

(***************************************************************************)
(* The timer of listTools                                                  *)
(***************************************************************************)
\* C35: once the 5-second timer of a listTools call has fired, the call no
\* longer waits for the tools/list reply.
C35_ListToolsTimeoutEndsWait ==
    \A c \in Callers : cl[c].listTimeout => th[c].pc # "listing"

(***************************************************************************)
(* Progress of the per-server queues                                       *)
(***************************************************************************)
\* C36: a call that waits on its queued request, or has an entry in the queue
\* of its server, eventually neither waits nor has an entry there (its promise
\* settled and the entry was removed), unless the pool of connection objects
\* of the model stops the hub.
C36_QueuedCallsSettle ==
    \A c \in 1..HubCallers, s \in 1..HubServers :
        LET queued == \E k \in 1..Len(toolCallQueue[s]) : toolCallQueue[s][k].caller = c
            waiting == th[c].pc = "awaitCall" /\ th[c].srv = s
        IN  (queued \/ waiting) ~> ((~queued /\ ~waiting) \/ PoolBlocks)

(***************************************************************************)
(* Transports of a server name                                             *)
(***************************************************************************)
\* C37: every open transport of a server name is the one of the connection the
\* connections map holds for that name, so at most one is open at any time.
C37_OneOpenTransport ==
    \A s \in AllServers :
        \A g \in DOMAIN conns[s] : conns[s][g].open => connections[s] = g

(***************************************************************************)
(* Confirmation and capture over the passes of executeTool                 *)
(***************************************************************************)
\* C38: within one executeTool invocation the confirmation hook is called at
\* most once and the capture probe is issued at most once.
C38_ConfirmAndCaptureOnce == ex.confirmations <= 1 /\ ex.probes <= 1

\* C39: the tool the capture probe calls and the tool the rollback calls both
\* differ from the dangerous tool that is being executed.
C39_ProbeAndRollbackAreOtherTools ==
    /\ ex.pc = "probe" => ex.want # ex.tool
    /\ ex.pc = "rollback" => ex.want # ex.tool

(***************************************************************************)
(* Compensators of the steps that succeeded                                *)
(***************************************************************************)
\* C40: once the loop has dealt with the reply of a step whose hub call
\* succeeded and that declares a rollback, the step is a success and its
\* compensator is on the rollback stack.
C40_SucceededStepHasCompensator ==
    co.status # << >> =>
        \A n \in 1..Len(co.def) :
            LET callSucceeded ==
                    \E k \in 1..Len(co.calls) :
                        /\ co.calls[k].kind = "step" /\ co.calls[k].step = n
                        /\ th[co.calls[k].id].pc = "done"
                        /\ cl[co.calls[k].id].result = "ok"
            IN  (co.def[n].rb # "none" /\ callSucceeded /\ ~(co.pc = "step" /\ co.i = n)) =>
                    /\ co.status[n] = "success"
                    /\ \E j \in 1..Len(co.stack) : co.stack[j].step = n

====
